---- MODULE Spec2Model ----
(***************************************************************************)
(* The intent-classifier Featurizer of snips_nlu                            *)
(* (snips_nlu/intent_classifier/feature_extraction.py): fit, transform,     *)
(* fit_transform, to_dict and from_dict, over a small universe of texts,    *)
(* datasets and chi2 p-values.                                              *)
(*                                                                         *)
(* Conventions.                                                             *)
(*  - A text (query, utterance, pseudo-document) is a sequence of pieces:   *)
(*    words and the blank " ".  Tokenizing drops the blanks, joining puts   *)
(*    them back.                                                            *)
(*  - A Python value that may be None / missing is <<>> (None) or <<x>>.    *)
(*  - Column indices are 0-based as in the code; sequences are 1-based.     *)
(*  - A p-value is an integer number of hundredths (40 is 0.4).             *)
(*  - An idf weight ln((1+N)/(1+df)) + 1 is kept as the pair <<1+N, 1+df>>. *)
(*  - A call that raises returns the name of the exception in "err".        *)
(*  - The steps of a function are operators of their own where a value is   *)
(*    used more than once, so that each is computed once.                   *)
(***************************************************************************)
EXTENDS Integers, Sequences, FiniteSets, TLC

VARIABLES
  featurizer,  \* the Featurizer object in hand
  last,        \* the last call: its name, arguments and outcome
  trained      \* whether the learned state of featurizer comes from a successful fit

vars == <<featurizer, last, trained>>

(* ------------------------------ bounds -------------------------------- *)

\* Longest list of queries handed to fit / transform / fit_transform.
MaxQueries == 2

(* ------------------------- Python-level helpers ----------------------- *)

None == <<>>
Some(x) == <<x>>
IsNone(o) == Len(o) = 0
Val(o) == o[1]

Range(s) == {s[i] : i \in 1..Len(s)}

\* range(n) as a sequence: 0, 1, ..., n-1
range(n) == [i \in 1..n |-> i - 1]

\* [[x] for x in s]
singletons(s) == [i \in 1..Len(s) |-> <<s[i]>>]

RECURSIVE list_of_set(_)
\* list(s) for a set s: every element once, in the set's iteration order
list_of_set(S) ==
  IF S = {} THEN <<>>
  ELSE <<CHOOSE e \in S : TRUE>> \o list_of_set(S \ {CHOOSE e \in S : TRUE})

RECURSIVE list_remove(_, _)
\* list.remove(x): drops the first occurrence of x
list_remove(l, x) ==
  IF l = <<>> THEN <<>>
  ELSE IF Head(l) = x THEN Tail(l)
  ELSE <<Head(l)>> \o list_remove(Tail(l), x)

RECURSIVE join(_, _)
\* sep.join(items): items are texts, sep is a text
join(sep, items) ==
  IF items = <<>> THEN <<>>
  ELSE IF Len(items) = 1 THEN items[1]
  ELSE items[1] \o sep \o join(sep, Tail(items))

RECURSIVE concat(_)
\* the concatenation of a sequence of sequences
concat(ss) == IF ss = <<>> THEN <<>> ELSE Head(ss) \o concat(Tail(ss))

RECURSIVE count(_, _)
\* list.count(x)
count(s, x) ==
  IF s = <<>> THEN 0
  ELSE (IF Head(s) = x THEN 1 ELSE 0) + count(Tail(s), x)

(* --------------------------- collaborators ---------------------------- *)

Blank == " "

\* Language objects: iso code and default separator.
Languages == { [iso_code |-> "en", default_sep |-> <<Blank>>] }

from_iso_code(code) == CHOOSE l \in Languages : l.iso_code = code

tokenize_light(text, language) == SelectSeq(text, LAMBDA p : p # Blank)

\* nlu_utils.normalize on one piece: lower-casing
normalize(w) ==
  CASE w = "The" -> "the"
    [] w = "Who" -> "who"
    [] OTHER -> w

get_stems == {"en"}

\* the stemmer of the language; the words of this universe are their own stems
stem(w, language) == w

get_stop_words(language) ==
  IF language.iso_code = "en" THEN {"the", "who"} ELSE {}

is_builtin_entity(name) == name = "snips/datetime"

\* every contiguous run of tokens, joined by a blank
get_all_ngrams(tokens) ==
  concat([i \in 1..Len(tokens) |->
            [k \in 1..(Len(tokens) - i + 1) |->
               join(<<Blank>>, [j \in 1..k |-> <<tokens[i + j - 1]>>])]])

(* ------------------------- module-level functions --------------------- *)

CLUSTER_USED_PER_LANGUAGES == {}

\* "entityfeature" followed by the tokens of the name, concatenated
entity_name_to_feature(entity_name) ==
  CASE entity_name = "musicartist" -> "entityfeaturemusicartist"
    [] entity_name = "music artist" -> "entityfeaturemusicartist"
    [] OTHER -> "entityfeaturesnipsdatetime"

\* normalize_stem of one piece (a blank stays a blank)
normalize_stem_piece(w, language) ==
  IF language.iso_code \in get_stems
  THEN stem(normalize(w), language)
  ELSE normalize(w)

\* normalize_stem of a text, or of the tokens of a text: piece by piece
normalize_stem(text, language) ==
  [i \in 1..Len(text) |-> normalize_stem_piece(text[i], language)]

\* no language has a cluster name: CLUSTER_USED_PER_LANGUAGES is empty
get_word_cluster_features(query_tokens, language) ==
  IF language.iso_code \notin CLUSTER_USED_PER_LANGUAGES THEN <<>> ELSE <<>>

\* [entity_name_to_feature(name) for name in index.get(ngram, [])]
ngram_entity_features(ngram, index) ==
  IF ngram \in DOMAIN index
  THEN [m \in 1..Cardinality(index[ngram]) |->
          entity_name_to_feature(list_of_set(index[ngram])[m])]
  ELSE <<>>

\* the loop over the n-grams; the index is dereferenced once per n-gram, so a
\* None index raises AttributeError as soon as there is one n-gram
entity_features_of_ngrams(ngrams, entity_utterances_to_entity_names) ==
  IF ngrams = <<>> THEN [err |-> "", features |-> <<>>]
  ELSE IF IsNone(entity_utterances_to_entity_names)
  THEN [err |-> "AttributeError", features |-> <<>>]
  ELSE [err |-> "",
        features |-> concat([n \in 1..Len(ngrams) |->
                               ngram_entity_features(ngrams[n],
                                                     Val(entity_utterances_to_entity_names))])]

\* [err, features]
get_dataset_entities_features(normalized_stemmed_tokens, entity_utterances_to_entity_names) ==
  entity_features_of_ngrams(get_all_ngrams(normalized_stemmed_tokens),
                            entity_utterances_to_entity_names)

\* the pseudo-document: the tokens joined by the separator, then a blank and the
\* entity features (if any), then a blank and the cluster features (if any)
assemble_features(normalized_stemmed_tokens, entities, word_clusters_features, language) ==
  [err |-> entities.err,
   doc |-> join(language.default_sep, singletons(normalized_stemmed_tokens))
           \o (IF Len(entities.features) # 0
               THEN <<Blank>> \o join(<<Blank>>, singletons(entities.features))
               ELSE <<>>)
           \o (IF Len(word_clusters_features) # 0
               THEN <<Blank>> \o join(<<Blank>>, singletons(word_clusters_features))
               ELSE <<>>)]

\* the part of preprocess_query after tokenization
preprocess_tokens(query_tokens, normalized_stemmed_tokens, language, entity_utterances_to_entity_name) ==
  assemble_features(normalized_stemmed_tokens,
                    get_dataset_entities_features(normalized_stemmed_tokens,
                                                  entity_utterances_to_entity_name),
                    get_word_cluster_features(query_tokens, language),
                    language)

\* [err, doc]: the pseudo-document of one query
preprocess_query(query, language, entity_utterances_to_entity_name) ==
  preprocess_tokens(tokenize_light(query, language),
                    normalize_stem(tokenize_light(query, language), language),
                    language, entity_utterances_to_entity_name)

\* the utterances of one entity: values and synonyms, or values alone
entity_utterances(entity_data) ==
  IF entity_data.use_synonyms
  THEN UNION {{entity_data.data[i].value} \cup Range(entity_data.data[i].synonyms) :
              i \in 1..Len(entity_data.data)}
  ELSE {entity_data.data[i].value : i \in 1..Len(entity_data.data)}

\* entities is dataset[ENTITIES]: entity name -> [use_synonyms, data], data a
\* sequence of [value, synonyms]
get_utterances_entities(dataset) ==
  [u \in UNION {entity_utterances(dataset.entities[n]) :
                n \in {m \in DOMAIN dataset.entities : ~is_builtin_entity(m)}} |->
     {n \in DOMAIN dataset.entities :
        ~is_builtin_entity(n) /\ u \in entity_utterances(dataset.entities[n])}]

(* ------------------------- term-weight vectorizer --------------------- *)

\* sorted() over the terms of this universe
TermOrder == <<"entityfeaturemusicartist", "entityfeaturesnipsdatetime", "the", "who">>

position(t) == CHOOSE i \in 1..Len(TermOrder) : TermOrder[i] = t

\* the analyzer of TfidfVectorizer(tokenizer=tokenize_light): lower-case, tokenize
analyze(doc, language) ==
  tokenize_light([i \in 1..Len(doc) |-> normalize(doc[i])], language)

analyze_documents(raw_documents, language) ==
  [i \in 1..Len(raw_documents) |-> analyze(raw_documents[i], language)]

\* sp.spdiags(idf, diags=0, m=n, n=n): a sparse n x n matrix
spdiags(data) ==
  [shape |-> <<Len(data), Len(data)>>,
   entries |-> {<<i - 1, i - 1, data[i]>> : i \in 1..Len(data)}]

\* how many stored entries of a sparse matrix come before entry e, by row then column
entries_before(m, e) ==
  Cardinality({d \in m.entries : d[1] < e[1] \/ (d[1] = e[1] /\ d[2] < e[2])})

\* m.data.tolist(): the stored values of a sparse matrix, by row then column
matrix_data(m) ==
  [i \in 1..Cardinality(m.entries) |->
     (CHOOSE e \in m.entries : entries_before(m, e) = i - 1)[3]]

\* csr_matrix((data, (row, col)), shape=shape)
csr_matrix(data, row, col, shape) ==
  [shape |-> shape,
   entries |-> {<<row[i], col[i], data[i]>> : i \in 1..Len(data)}]

\* a vectorizer that learned nothing yet has no vocabulary_ and no idf
default_tfidf_vectorizer(language) == [vocabulary_ |-> None, idf_diag |-> None]

\* the column of term t in the sorted vocabulary
column_index(t, terms) == Cardinality({u \in terms : position(u) < position(t)})

\* in how many documents term t occurs
document_frequency(t, docs) == Cardinality({i \in 1..Len(docs) : t \in Range(docs[i])})

\* vocabulary_ (terms sorted, indices dense from 0) and the smoothed idf
\* ln((1 + N) / (1 + df)) + 1 of every column
learn_vocabulary(docs, terms) ==
  [vocabulary_ |-> Some([t \in terms |-> column_index(t, terms)]),
   idf_diag |-> Some(spdiags(
     [c \in 1..Cardinality(terms) |->
        <<1 + Len(docs),
          1 + document_frequency(CHOOSE t \in terms : column_index(t, terms) = c - 1, docs)>>]))]

\* the terms of the documents joined to the vocabulary the vectorizer held
tfidf_partial_fit(tfidf_vectorizer, raw_documents, language) ==
  learn_vocabulary(analyze_documents(raw_documents, language),
                   UNION {Range(analyze(raw_documents[i], language)) :
                          i \in 1..Len(raw_documents)}
                   \cup (IF IsNone(tfidf_vectorizer.vocabulary_) THEN {}
                         ELSE DOMAIN Val(tfidf_vectorizer.vocabulary_)))

\* TfidfVectorizer.fit_transform: learns vocabulary_ and idf anew from the
\* documents, whatever the vectorizer held
tfidf_fit_transform(tfidf_vectorizer, raw_documents, language) ==
  learn_vocabulary(analyze_documents(raw_documents, language),
                   UNION {Range(analyze(raw_documents[i], language)) :
                          i \in 1..Len(raw_documents)})

\* per column of the vocabulary: the count of its term in the document, and its idf
term_weights(doc, vocabulary, idf_diag) ==
  [c \in 1..Cardinality(DOMAIN vocabulary) |->
     <<count(doc, CHOOSE t \in DOMAIN vocabulary : vocabulary[t] = c - 1),
       (CHOOSE e \in idf_diag.entries : e[1] = c - 1 /\ e[2] = c - 1)[3]>>]

\* the l2-normalised row: a cell is empty when the term is absent, else its
\* count, its idf and the (count, idf) of every term of the row, which fix the norm
normalized_row(weights) ==
  [c \in 1..Len(weights) |->
     IF weights[c][1] = 0 THEN <<>>
     ELSE <<weights[c][1], weights[c][2], SelectSeq(weights, LAMBDA w : w[1] > 0)>>]

\* X has one row per document and one column per vocabulary term; terms
\* outside the vocabulary are ignored; the idf matrix must fit the vocabulary
tfidf_rows(vocabulary, idf_diag, docs) ==
  IF idf_diag.shape[1] # Cardinality(DOMAIN vocabulary)
  THEN [err |-> "ValueError", X |-> <<>>]
  ELSE [err |-> "",
        X |-> [i \in 1..Len(docs) |->
                 normalized_row(term_weights(docs[i], vocabulary, idf_diag))]]

\* TfidfVectorizer.transform: [err, X]
tfidf_transform(tfidf_vectorizer, raw_documents, language) ==
  IF IsNone(tfidf_vectorizer.vocabulary_)
  THEN [err |-> "NotFittedError", X |-> <<>>]
  ELSE tfidf_rows(Val(tfidf_vectorizer.vocabulary_), Val(tfidf_vectorizer.idf_diag),
                  analyze_documents(raw_documents, language))

(* ------------------------------ Featurizer ---------------------------- *)

\* pvalue_threshold=0.4, in hundredths
DefaultPValueThreshold == 40

Featurizer(language, tfidf_vectorizer, best_features, entity_utterances_to_entity_names, pvalue_threshold) ==
  [language |-> language,
   tfidf_vectorizer |-> IF IsNone(tfidf_vectorizer)
                        THEN default_tfidf_vectorizer(language)
                        ELSE Val(tfidf_vectorizer),
   best_features |-> best_features,
   pvalue_threshold |-> pvalue_threshold,
   entity_utterances_to_entity_names |-> entity_utterances_to_entity_names]

\* the list preprocess_queries returns, unless one query raised
gather_documents(processed) ==
  IF \E i \in 1..Len(processed) : processed[i].err # ""
  THEN [err |-> "AttributeError", docs |-> <<>>]
  ELSE [err |-> "", docs |-> [i \in 1..Len(processed) |-> processed[i].doc]]

\* [err, docs]
preprocess_queries(self, queries) ==
  gather_documents([i \in 1..Len(queries) |->
                      preprocess_query(queries[i], self.language,
                                       self.entity_utterances_to_entity_names)])

\* lines 140-143: normalize_stem(utterance) -> the entity names of every
\* utterance with that key
index_entities(utterance_entities, language) ==
  [key \in {normalize_stem(u, language) : u \in DOMAIN utterance_entities} |->
     UNION {utterance_entities[u] :
            u \in {v \in DOMAIN utterance_entities : normalize_stem(v, language) = key}}]

\* dict.update of the index the Featurizer held with the new one
merge_entities(old, new) ==
  [key \in DOMAIN new \cup (IF IsNone(old) THEN {} ELSE DOMAIN Val(old)) |->
     (IF key \in DOMAIN new THEN new[key] ELSE {})
     \cup (IF IsNone(old) THEN {}
           ELSE IF key \in DOMAIN Val(old) THEN Val(old)[key] ELSE {})]

\* some query has no token
any_query_empty(queries, language) ==
  \E i \in 1..Len(queries) : Len(tokenize_light(queries[i], language)) = 0

\* all(len("".join(tokenize_light(q))) == 0 for q in queries); a token is never
\* the empty string, so the joined length is 0 exactly when there is no token
all_queries_empty(queries, language) ==
  \A i \in 1..Len(queries) : Len(tokenize_light(queries[i], language)) = 0

\* [idx for idx, val in enumerate(pval) if val == pval.min()]
select_minimum(pval) ==
  SelectSeq(range(Len(pval)), LAMBDA idx : \A v \in Range(pval) : pval[idx + 1] <= v)

\* lines 160-164: the columns below the threshold, else those of the least p-value
select_features(pval, pvalue_threshold) ==
  IF \E i \in 1..Len(pval) : pval[i] < pvalue_threshold
  THEN SelectSeq(range(Len(pval)), LAMBDA i : pval[i + 1] < pvalue_threshold)
  ELSE select_minimum(pval)

\* lines 166-168: the word and the p-value of every selected column
name_features(best_features, vocabulary, pval) ==
  [i \in Range(best_features) |->
     [word |-> CHOOSE x \in DOMAIN vocabulary : vocabulary[x] = i, pval |-> pval[i + 1]]]

\* line 171-172
is_demoted(feat, stop_words, pvalue_threshold) ==
  feat.word \in stop_words /\ 2 * feat.pval > pvalue_threshold

RECURSIVE demote_over_keys(_, _, _, _, _)
\* the loop over the keys of feature_names, removing from best_features
demote_over_keys(best_features, keys, feature_names, stop_words, pvalue_threshold) ==
  IF keys = <<>> THEN best_features
  ELSE demote_over_keys(
         IF is_demoted(feature_names[Head(keys)], stop_words, pvalue_threshold)
         THEN list_remove(best_features, Head(keys))
         ELSE best_features,
         Tail(keys), feature_names, stop_words, pvalue_threshold)

RECURSIVE demote_over_list(_, _, _, _, _)
\* the same loop run over best_features itself, by position, while it shrinks
demote_over_list(best_features, pos, feature_names, stop_words, pvalue_threshold) ==
  IF pos > Len(best_features) THEN best_features
  ELSE demote_over_list(
         IF is_demoted(feature_names[best_features[pos]], stop_words, pvalue_threshold)
         THEN list_remove(best_features, best_features[pos])
         ELSE best_features,
         pos + 1, feature_names, stop_words, pvalue_threshold)

demote_stop_words_in_place(best_features, feature_names, stop_words, pvalue_threshold) ==
  demote_over_list(best_features, 1, feature_names, stop_words, pvalue_threshold)

\* lines 170-173: feature_names is a dict keyed by column index, walked key by key
demote_stop_words(best_features, feature_names, stop_words, pvalue_threshold) ==
  demote_over_keys(best_features,
                   SelectSeq(range(Len(TermOrder)), LAMBDA i : i \in DOMAIN feature_names),
                   feature_names, stop_words, pvalue_threshold)

\* lines 166-173 on the selection of lines 160-164
demote_selected(best_features, vocabulary, pval, stop_words, pvalue_threshold) ==
  demote_stop_words(best_features, name_features(best_features, vocabulary, pval),
                    stop_words, pvalue_threshold)

\* lines 154-173: best_features from the fitted vocabulary and chi2's p-values
select_best_features(vocabulary, pval, stop_words, pvalue_threshold) ==
  demote_selected(select_features(pval, pvalue_threshold), vocabulary, pval,
                  stop_words, pvalue_threshold)

\* lines 150-153: the vectorizer after fit_transform on the preprocessed queries
fit_vectorizer(self, queries) ==
  tfidf_fit_transform(self.tfidf_vectorizer, preprocess_queries(self, queries).docs,
                      self.language)

\* lines 154-175
fit_selection(self, tfidf_vectorizer, pval) ==
  [self EXCEPT
     !.tfidf_vectorizer = tfidf_vectorizer,
     !.best_features = Some(select_best_features(Val(tfidf_vectorizer.vocabulary_), pval,
                                                 get_stop_words(self.language),
                                                 self.pvalue_threshold))]

\* lines 147-175, self holding the new entity index
fit_queries(self, queries, pval) ==
  IF all_queries_empty(queries, self.language)
  THEN [self |-> self, ret |-> "None"]
  ELSE [self |-> fit_selection(self, fit_vectorizer(self, queries), pval), ret |-> "self"]

\* self with the index of the dataset merged into the one it held
fit_merging_entities(self, dataset) ==
  [self EXCEPT !.entity_utterances_to_entity_names =
                  Some(merge_entities(self.entity_utterances_to_entity_names,
                                      index_entities(get_utterances_entities(dataset),
                                                     self.language)))]

\* lines 139-145: self with the entity index of the dataset
fit_entities(self, dataset) ==
  [self EXCEPT !.entity_utterances_to_entity_names =
                  Some(index_entities(get_utterances_entities(dataset), self.language))]

\* fit(dataset, queries, y): [self, ret]; pval stands for chi2(X_train_tfidf, y)[1]
fit(self, dataset, queries, pval) ==
  fit_queries(fit_entities(self, dataset), queries, pval)

\* X[:, :]
all_columns(X, best_features) == X

\* X[:, best_features]
select_columns(X, best_features) ==
  [i \in 1..Len(X) |-> [c \in 1..Len(best_features) |-> X[i][best_features[c] + 1]]]

\* line 180
project(self, X_train_tfidf) ==
  IF X_train_tfidf.err # "" THEN [err |-> X_train_tfidf.err, X |-> <<>>]
  ELSE IF IsNone(self.best_features) THEN [err |-> "IndexError", X |-> <<>>]
  ELSE IF \E b \in Range(Val(self.best_features)) :
             b >= Cardinality(DOMAIN Val(self.tfidf_vectorizer.vocabulary_))
  THEN [err |-> "IndexError", X |-> <<>>]
  ELSE [err |-> "", X |-> select_columns(X_train_tfidf.X, Val(self.best_features))]

\* lines 179-181
transform_documents(self, preprocessed_queries) ==
  IF preprocessed_queries.err # "" THEN [err |-> preprocessed_queries.err, X |-> <<>>]
  ELSE project(self, tfidf_transform(self.tfidf_vectorizer, preprocessed_queries.docs,
                                     self.language))

\* transform(queries): [err, X]
transform(self, queries) == transform_documents(self, preprocess_queries(self, queries))

\* to_dict(): [err, dict]; an unfitted vectorizer has no vocabulary_, a None
\* index has no iteritems
to_dict(self) ==
  IF IsNone(self.tfidf_vectorizer.vocabulary_) \/ IsNone(self.entity_utterances_to_entity_names)
  THEN [err |-> "AttributeError", dict |-> None]
  ELSE [err |-> "",
        dict |-> Some(
          [language_code |-> self.language.iso_code,
           tfidf_vectorizer |->
             [vocab |-> Val(self.tfidf_vectorizer.vocabulary_),
              idf_diag |-> matrix_data(Val(self.tfidf_vectorizer.idf_diag))],
           best_features |-> self.best_features,
           pvalue_threshold |-> self.pvalue_threshold,
           entity_utterances_to_entity_names |->
             [k \in DOMAIN Val(self.entity_utterances_to_entity_names) |->
                list_of_set(Val(self.entity_utterances_to_entity_names)[k])]])]

deserialize_tfidf_vectorizer(vectorizer_dict, language) ==
  [default_tfidf_vectorizer(language) EXCEPT
     !.vocabulary_ = Some(vectorizer_dict.vocab),
     !.idf_diag = Some(csr_matrix(vectorizer_dict.idf_diag,
                                  range(Len(vectorizer_dict.idf_diag)),
                                  range(Len(vectorizer_dict.idf_diag)),
                                  <<Len(vectorizer_dict.idf_diag),
                                    Len(vectorizer_dict.idf_diag)>>))]

\* from_dict of a state written without the entity index
from_dict_without_entities(obj_dict) ==
  Featurizer(from_iso_code(obj_dict.language_code),
             Some(deserialize_tfidf_vectorizer(obj_dict.tfidf_vectorizer,
                                               from_iso_code(obj_dict.language_code))),
             obj_dict.best_features,
             Some([k \in {} |-> {}]),
             obj_dict.pvalue_threshold)

\* from_dict(obj_dict), lines 204-220
from_dict(obj_dict) ==
  Featurizer(from_iso_code(obj_dict.language_code),
             Some(deserialize_tfidf_vectorizer(obj_dict.tfidf_vectorizer,
                                               from_iso_code(obj_dict.language_code))),
             obj_dict.best_features,
             Some([k \in DOMAIN obj_dict.entity_utterances_to_entity_names |->
                     Range(obj_dict.entity_utterances_to_entity_names[k])]),
             obj_dict.pvalue_threshold)

(* ------------------------------ inputs -------------------------------- *)

Queries == { <<Blank>>, <<"the", Blank, "Who">> }

QueryLists == UNION {[1..n -> Queries] : n \in 0..MaxQueries}

entity(use_synonyms, value, synonyms) ==
  [use_synonyms |-> use_synonyms, data |-> <<[value |-> value, synonyms |-> synonyms]>>]

\* a dataset without entities, and one where two custom entities (one with
\* synonyms, one without) and a builtin one hold utterances of the queries
Datasets ==
  { [entities |-> [n \in {} |-> entity(TRUE, <<>>, <<>>)]],
    [entities |-> [n \in {"musicartist", "music artist", "snips/datetime"} |->
                     CASE n = "musicartist" ->
                            entity(TRUE, <<"the", Blank, "who">>, << <<"The", Blank, "Who">> >>)
                       [] n = "music artist" ->
                            entity(FALSE, <<"The", Blank, "Who">>, << <<"who">> >>)
                       [] OTHER -> entity(TRUE, <<"the">>, <<>>)]] }

\* p-values chi2 may report, in hundredths
PVals == {20, 30, 40}

\* the p-value arrays chi2 may return for a matrix of that many columns
chi2_outcomes(vocabulary) == [1..Cardinality(DOMAIN vocabulary) -> PVals]

\* portable states that no to_dict produced, whatever the idf sequence
external_state(idf_diag) ==
  [language_code |-> "en",
   tfidf_vectorizer |-> [vocab |-> [t \in {"the", "who"} |-> IF t = "the" THEN 0 ELSE 1],
                         idf_diag |-> idf_diag],
   best_features |-> Some(<<0>>),
   pvalue_threshold |-> DefaultPValueThreshold,
   entity_utterances_to_entity_names |->
     [k \in {<<"who">>} |-> <<"musicartist", "musicartist">>]]

\* the idf sequence is shorter than, as long as, or longer than the vocabulary
ExternalStates ==
  { external_state(<< <<3, 2>> >>),
    external_state(<< <<3, 2>>, <<3, 3>> >>),
    external_state(<< <<3, 2>>, <<3, 3>>, <<3, 2>> >>) }

(* ------------------------------ actions ------------------------------- *)

\* the last call: its name, how it ended, its arguments and what it returned;
\* refit tells that a fit ran on a Featurizer that was already trained
Call(op, ret, dataset, queries, pval, X, state) ==
  [op |-> op, ret |-> ret, dataset |-> dataset, queries |-> queries,
   pval |-> pval, X |-> X, state |-> state, refit |-> FALSE]

Init ==
  /\ featurizer \in {Featurizer(l, None, None, None, DefaultPValueThreshold) : l \in Languages}
  /\ last = Call("__init__", "Featurizer", None, None, None, None, None)
  /\ trained = FALSE

Returned(err) == IF err = "" THEN "matrix" ELSE err

\* fit(dataset, queries, y), step by step: the entity index (lines 139-145), the
\* early return (147-149), the vectorizer (150-153), chi2 (159), the selection
\* (160-173); every value is bound once and shared by the steps after it
Fit ==
  \E dataset \in Datasets, queries \in QueryLists :
    \E self \in {fit_entities(featurizer, dataset)} :
      IF all_queries_empty(queries, self.language)
      THEN /\ featurizer' = self
           /\ last' = [Call("fit", "None", Some(dataset), Some(queries), None, None, None)
                         EXCEPT !.refit = trained]
           /\ UNCHANGED trained
      ELSE \E tfidf_vectorizer \in {fit_vectorizer(self, queries)} :
             \E pval \in chi2_outcomes(Val(tfidf_vectorizer.vocabulary_)) :
               /\ featurizer' = fit_selection(self, tfidf_vectorizer, pval)
               /\ last' = [Call("fit", "self", Some(dataset), Some(queries), Some(pval),
                                None, None) EXCEPT !.refit = trained]
               /\ trained' = TRUE

\* transform(queries): featurizer is only read
Transform ==
  \E queries \in QueryLists :
    \E r \in {transform(featurizer, queries)} :
      /\ last' = Call("transform", Returned(r.err), None, Some(queries), None,
                      IF r.err = "" THEN Some(r.X) ELSE None, None)
      /\ UNCHANGED <<featurizer, trained>>

\* fit_transform(dataset, queries, y): the steps of fit, then .transform(queries)
\* on what fit returned, None included
FitTransform ==
  \E dataset \in Datasets, queries \in QueryLists :
    \E self \in {fit_entities(featurizer, dataset)} :
      IF all_queries_empty(queries, self.language)
      THEN /\ featurizer' = self
           /\ last' = Call("fit_transform", "AttributeError", Some(dataset), Some(queries),
                           None, None, None)
           /\ UNCHANGED trained
      ELSE \E tfidf_vectorizer \in {fit_vectorizer(self, queries)} :
             \E X_train_tfidf \in {tfidf_transform(tfidf_vectorizer,
                                                   preprocess_queries(self, queries).docs,
                                                   self.language)} :
               \E pval \in chi2_outcomes(Val(tfidf_vectorizer.vocabulary_)) :
                 \E fitted \in {fit_selection(self, tfidf_vectorizer, pval)} :
                   \E r \in {project(fitted, X_train_tfidf)} :
                     /\ featurizer' = fitted
                     /\ last' = Call("fit_transform", Returned(r.err), Some(dataset),
                                     Some(queries), Some(pval),
                                     IF r.err = "" THEN Some(r.X) ELSE None, None)
                     /\ trained' = TRUE

ToDict ==
  \E r \in {to_dict(featurizer)} :
    /\ last' = Call("to_dict", IF r.err = "" THEN "dict" ELSE r.err,
                    None, None, None, None, r.dict)
    /\ UNCHANGED <<featurizer, trained>>

\* from_dict on the state the last to_dict returned, or on an external one
FromDict ==
  \E obj_dict \in ExternalStates \cup
                  (IF last.op = "to_dict" /\ last.ret = "dict" THEN {Val(last.state)} ELSE {}) :
    /\ featurizer' = from_dict(obj_dict)
    /\ last' = Call("from_dict", "Featurizer", None, None, None, None, Some(obj_dict))
    /\ trained' = (trained /\ last.op = "to_dict" /\ last.state = Some(obj_dict))

Next == Fit \/ Transform \/ FitTransform \/ ToDict \/ FromDict

Spec == Init /\ [][Next]_vars


(* --------------------------- properties ------------------------------- *)

\* what the claims speak about, read off the state
learned_vocabulary == Val(featurizer.tfidf_vectorizer.vocabulary_)

SelectedFeatures == Val(featurizer.best_features)

\* a query without any token: nothing but blanks
is_blank(query) == \A j \in 1..Len(query) : query[j] = Blank

\* lines 160-164 read as a predicate: column i (from 1) of pval is selected by
\* the threshold step, or by the minimum fallback when the threshold selects none
selected_before_demotion(pval, i, pvalue_threshold) ==
  \/ pval[i] < pvalue_threshold
  \/ /\ \A j \in 1..Len(pval) : pval[j] >= pvalue_threshold
     /\ \A j \in 1..Len(pval) : pval[i] <= pval[j]

\* a Featurizer as the constructor leaves it, with the settings of featurizer
fresh_featurizer == Featurizer(featurizer.language, None, None, None, featurizer.pvalue_threshold)

\* C1: after every successful fit on a corpus whose vocabulary is not empty,
\* best_features holds at least one column index, demotion pass included
C1_SelectionNonEmpty ==
  (last.op = "fit" /\ last.ret = "self" /\ DOMAIN learned_vocabulary # {})
    => Len(SelectedFeatures) >= 1

\* C2: transform on a Featurizer on which no fit has succeeded (its vectorizer
\* has no vocabulary) ends with NotFittedError, whatever the queries
C2_UnfittedTransformIsNotFittedError ==
  (last.op = "transform" /\ IsNone(featurizer.tfidf_vectorizer.vocabulary_))
    => last.ret = "NotFittedError"

\* C3: fit_transform on a corpus where every query has no token ends as fit
\* does on it, with the no-op outcome None and without an exception
C3_FitTransformDegenerateIsNoOp ==
  (last.op = "fit_transform"
   /\ \A i \in 1..Len(Val(last.queries)) : is_blank(Val(last.queries)[i]))
    => last.ret = "None"

\* C4: fit returns None, leaving the vectorizer and best_features as they
\* were, exactly when every query has no token; otherwise it returns self with
\* the vectorizer fitted on the queries' documents and best_features computed
C4_FitAbortsExactlyOnEmptyCorpus ==
  /\ [](last.op = "fit" =>
          IF \A i \in 1..Len(Val(last.queries)) : is_blank(Val(last.queries)[i])
          THEN last.ret = "None"
          ELSE /\ last.ret = "self"
               /\ ~IsNone(featurizer.tfidf_vectorizer.vocabulary_)
               /\ ~IsNone(featurizer.tfidf_vectorizer.idf_diag)
               /\ DOMAIN learned_vocabulary =
                    UNION {Range(analyze(preprocess_queries(featurizer, Val(last.queries)).docs[i],
                                         featurizer.language)) :
                           i \in 1..Len(Val(last.queries))}
               /\ ~IsNone(featurizer.best_features)
               /\ Range(SelectedFeatures) \subseteq
                    0..(Cardinality(DOMAIN learned_vocabulary) - 1))
  /\ [][(last'.op = "fit" /\ last'.ret = "None") =>
          /\ featurizer'.tfidf_vectorizer = featurizer.tfidf_vectorizer
          /\ featurizer'.best_features = featurizer.best_features]_vars

\* a fit on a list that mixes a blank query with a worded one went through
C4_Witness ==
  /\ last.op = "fit" /\ last.ret = "self"
  /\ \E i \in 1..Len(Val(last.queries)) : is_blank(Val(last.queries)[i])
  /\ \E i \in 1..Len(Val(last.queries)) : ~is_blank(Val(last.queries)[i])
  /\ DOMAIN learned_vocabulary # {}

\* C5: from_dict of a state whose vocabulary size differs from the length of
\* its idf_diag fails with StateMismatchError, so that every deserialized
\* Featurizer has as many idf entries as vocabulary terms
C5_MismatchedStateIsRejected ==
  last.op = "from_dict" =>
    /\ Cardinality(DOMAIN Val(last.state).tfidf_vectorizer.vocab)
         # Len(Val(last.state).tfidf_vectorizer.idf_diag)
       => last.ret = "StateMismatchError"
    /\ last.ret = "Featurizer" =>
         Val(featurizer.tfidf_vectorizer.idf_diag).shape[2] = Cardinality(DOMAIN learned_vocabulary)

\* C6: from_dict of what to_dict returned has the language, vocabulary, idf
\* sequence, best_features, pvalue_threshold and entity index (the same set of
\* names under every key) of the Featurizer it was taken from, and transforms
\* every query list to the same matrix
C6_RoundTripPreservesState ==
  [][(last.op = "to_dict" /\ last.ret = "dict"
      /\ last'.op = "from_dict" /\ last'.state = last.state) =>
       /\ featurizer'.language = featurizer.language
       /\ featurizer'.tfidf_vectorizer.vocabulary_ = featurizer.tfidf_vectorizer.vocabulary_
       /\ matrix_data(Val(featurizer'.tfidf_vectorizer.idf_diag)) =
            matrix_data(Val(featurizer.tfidf_vectorizer.idf_diag))
       /\ featurizer'.best_features = featurizer.best_features
       /\ featurizer'.pvalue_threshold = featurizer.pvalue_threshold
       /\ DOMAIN Val(featurizer'.entity_utterances_to_entity_names) =
            DOMAIN Val(featurizer.entity_utterances_to_entity_names)
       /\ \A k \in DOMAIN Val(featurizer.entity_utterances_to_entity_names) :
            Val(featurizer'.entity_utterances_to_entity_names)[k] =
              Val(featurizer.entity_utterances_to_entity_names)[k]
       /\ \A Q \in QueryLists : transform(featurizer', Q) = transform(featurizer, Q)]_vars

\* a trained Featurizer whose index holds a key with two entity names came
\* back from its own portable state
C6_Witness ==
  /\ last.op = "from_dict" /\ trained
  /\ \E k \in DOMAIN Val(featurizer.entity_utterances_to_entity_names) :
       Cardinality(Val(featurizer.entity_utterances_to_entity_names)[k]) >= 2
  /\ Len(SelectedFeatures) >= 1
  /\ Len(SelectedFeatures) < Cardinality(DOMAIN learned_vocabulary)

\* C7: of the terms selected by the threshold or the fallback, exactly the stop
\* words with a p-value above pvalue_threshold / 2 are missing from
\* best_features; every other selected term is in it, once, and no other column
C7_DemotionRemovesExactlyWeakStopWords ==
  (last.op = "fit" /\ last.ret = "self") =>
    /\ \A t \in DOMAIN learned_vocabulary :
         (learned_vocabulary[t] \in Range(SelectedFeatures))
           <=> /\ selected_before_demotion(Val(last.pval), learned_vocabulary[t] + 1,
                                           featurizer.pvalue_threshold)
               /\ ~(/\ t \in get_stop_words(featurizer.language)
                    /\ 2 * Val(last.pval)[learned_vocabulary[t] + 1]
                         > featurizer.pvalue_threshold)
    /\ Range(SelectedFeatures) \subseteq {learned_vocabulary[t] : t \in DOMAIN learned_vocabulary}
    /\ Cardinality(Range(SelectedFeatures)) = Len(SelectedFeatures)

\* two stop words next to each other were selected and removed, and a term
\* before them was kept
C7_Witness ==
  /\ last.op = "fit" /\ last.ret = "self"
  /\ Len(SelectedFeatures) >= 1
  /\ \A t \in {"the", "who"} :
       /\ t \in DOMAIN learned_vocabulary
       /\ t \in get_stop_words(featurizer.language)
       /\ selected_before_demotion(Val(last.pval), learned_vocabulary[t] + 1,
                                   featurizer.pvalue_threshold)
       /\ learned_vocabulary[t] \notin Range(SelectedFeatures)
  /\ learned_vocabulary["who"] = learned_vocabulary["the"] + 1

\* C8: after a successful fit, whatever was fitted before, to_dict gives what it
\* gives on a fresh Featurizer of the same language and pvalue_threshold fitted
\* once with the inputs of that call
C8_RefitReplacesLearnedState ==
  (last.op = "fit" /\ last.ret = "self") =>
    /\ to_dict(featurizer).err = ""
    /\ DOMAIN learned_vocabulary =
         DOMAIN Val(fit_vectorizer(fit_entities(fresh_featurizer, Val(last.dataset)),
                                   Val(last.queries)).vocabulary_)
    /\ to_dict(featurizer) =
         to_dict(fit(fresh_featurizer, Val(last.dataset), Val(last.queries),
                     Val(last.pval)).self)

\* a Featurizer that was already trained was fitted again, on a dataset
\* without entities: the vocabulary has no entity column, the index no key
C8_Witness ==
  /\ last.op = "fit" /\ last.ret = "self" /\ last.refit
  /\ DOMAIN Val(last.dataset).entities = {}
  /\ DOMAIN learned_vocabulary = {"the", "who"}
  /\ DOMAIN Val(featurizer.entity_utterances_to_entity_names) = {}

\* C9: transform leaves the Featurizer as it was, and on a trained one it
\* returns a matrix with one row per query and one column per selected feature
C9_TransformShapeAndFrame ==
  [][last'.op = "transform" =>
       /\ featurizer' = featurizer
       /\ trained' =>
            /\ last'.ret = "matrix"
            /\ Len(Val(last'.X)) = Len(Val(last'.queries))
            /\ \A i \in 1..Len(Val(last'.X)) :
                 Len(Val(last'.X)[i]) = Len(Val(featurizer'.best_features))]_vars

\* a trained Featurizer whose index names an entity that its vocabulary has no
\* column for transformed two queries into fewer columns than the vocabulary has
C9_Witness ==
  /\ last.op = "transform" /\ last.ret = "matrix" /\ trained
  /\ Len(Val(last.X)) = 2
  /\ \E i \in 1..2 : ~is_blank(Val(last.queries)[i])
  /\ Len(Val(last.X)[1]) = Len(SelectedFeatures)
  /\ Len(SelectedFeatures) < Cardinality(DOMAIN learned_vocabulary)
  /\ DOMAIN Val(featurizer.entity_utterances_to_entity_names) # {}
  /\ "entityfeaturemusicartist" \notin DOMAIN learned_vocabulary

\* C10, as stated: a fit that aborts on a trained Featurizer leaves the
\* vocabulary, the idf, best_features and the entity index as they were, and
\* every transform returns what it returned before
C10_AbortedFitChangesNothing ==
  [][(trained /\ last'.op = "fit" /\ last'.ret = "None") =>
       /\ featurizer'.tfidf_vectorizer = featurizer.tfidf_vectorizer
       /\ featurizer'.best_features = featurizer.best_features
       /\ featurizer'.entity_utterances_to_entity_names =
            featurizer.entity_utterances_to_entity_names
       /\ \A Q \in QueryLists : transform(featurizer', Q) = transform(featurizer, Q)]_vars

\* C10, amended: a fit that aborts on a trained Featurizer leaves the
\* vocabulary, the idf and best_features as they were and replaces the entity
\* index by the index of the dataset it was given; a transform returns what it
\* returned before for the queries that preprocess to the same documents
C10_AbortedFitReplacesOnlyEntityIndex ==
  [][(trained /\ last'.op = "fit" /\ last'.ret = "None") =>
       /\ featurizer'.tfidf_vectorizer = featurizer.tfidf_vectorizer
       /\ featurizer'.best_features = featurizer.best_features
       /\ featurizer'.entity_utterances_to_entity_names =
            Some(index_entities(get_utterances_entities(Val(last'.dataset)),
                                featurizer.language))
       /\ \A Q \in QueryLists :
            preprocess_queries(featurizer', Q) = preprocess_queries(featurizer, Q)
              => transform(featurizer', Q) = transform(featurizer, Q)]_vars

\* a fit aborted on a Featurizer trained with entity columns, and the index it
\* holds now is the empty one of a dataset without entities
C10_Witness ==
  /\ last.op = "fit" /\ last.ret = "None" /\ last.refit /\ trained
  /\ DOMAIN Val(last.dataset).entities = {}
  /\ "entityfeaturemusicartist" \in DOMAIN learned_vocabulary
  /\ DOMAIN Val(featurizer.entity_utterances_to_entity_names) = {}
====
